---- MODULE Spec2Model ----
(***************************************************************************)
(* The client-side performance telemetry layer.                            *)
(*                                                                         *)
(*   - OptimizedPerformanceMonitor  (services/optimized-performance-monitor)*)
(*     the store measureExecutionTime records into: variables metrics,     *)
(*     violations, memorySnapshots, metricListeners, violationListeners,   *)
(*     memoryInterval, leakTimeout.  Specifications Spec (no               *)
(*     performance.memory), SpecMemory (interval and debounced leak check  *)
(*     running), SpecMeasure (measureExecutionTime recording into it),     *)
(*     SpecSubscribe (callers keeping the unsubscribe functions in         *)
(*     handles) and SpecQuery (getMetrics with filters).                   *)
(*   - PerformanceMonitor (services/performance-monitor.ts): variables     *)
(*     pmMetrics, pmViolations, pmSnapshots, pmListeners, pmInterval.      *)
(*     Specification SpecPM.                                               *)
(*   - MemoryMonitor (services/memory-monitor.ts), which records into      *)
(*     PerformanceMonitor: variables mmSnapshots, mmListeners, mmInterval, *)
(*     detectTimeout.  Specifications SpecMM and SpecDebounce (detectLeaks *)
(*     called at any moment).                                              *)
(*   - PerformanceStore (utils/route-guard.tsx): variables psMetrics,      *)
(*     psSnapshots, psIsEnabled, psMemoryInterval, psTimers, psCreated.    *)
(*     Specification SpecStore.                                            *)
(*   - The pure functions, each applied to inputs drawn from bounded sets: *)
(*     checkPerformanceBudget (SpecBudget), calculatePercentile            *)
(*     (SpecPercentile), the other 95th percentiles (SpecP95) and          *)
(*     findSuspiciousComponent (SpecSuspicious).  SpecStamp is             *)
(*     PerformanceMonitor with callers that stamp their own metrics.       *)
(*                                                                         *)
(* Time is Date.now() in milliseconds.  A listener is a callback whose     *)
(* only modelled behaviour is to return or to throw.  The variable last    *)
(* records what the latest call did as its caller saw it (what it threw,   *)
(* whom it notified, what it appended); it is an observer, not program     *)
(* state.                                                                  *)
(***************************************************************************)
EXTENDS Integers, Sequences, FiniteSets, TLC

VARIABLES
    now,                \* Date.now() / performance.now()
    hasMemory,          \* whether the host exposes performance.memory
    metrics,            \* OptimizedPerformanceMonitor.metrics
    violations,         \* OptimizedPerformanceMonitor.violations
    memorySnapshots,    \* OptimizedPerformanceMonitor.memorySnapshots
    metricListeners,    \* Set<MetricListener>, in insertion order
    violationListeners, \* Set<ViolationListener>, in insertion order
    memoryInterval,     \* due time of the setInterval timer, NoTimer when none
    leakTimeout,        \* due time of debounce's pending setTimeout, NoTimer when none
    measuring,          \* the measureExecutionTime call awaiting fn(), if any
    disposed,           \* observer: dispose() has been called
    stale,              \* observer: listeners subscribed at the latest dispose(), not re-subscribed since
    last,               \* observer: what the latest call did
    pmMetrics,          \* PerformanceMonitor.metrics
    pmViolations,       \* PerformanceMonitor.violations
    pmSnapshots,        \* PerformanceMonitor.memorySnapshots
    pmListeners,        \* PerformanceMonitor.listeners, in insertion order
    pmInterval,         \* PerformanceMonitor.memoryInterval due time, NoTimer when none
    mmSnapshots,        \* MemoryMonitor.snapshots
    mmListeners,        \* MemoryMonitor.listeners, in insertion order
    mmInterval,         \* MemoryMonitor.interval due time, NoTimer when none
    detectTimeout,      \* due time of the setTimeout pending in MemoryMonitor.detectLeaks' debounce
    handles,            \* the unsubscribe functions onMetric / onViolation returned to a caller that kept them
    burst,              \* observer: the current burst of detectLeaks calls and the checks run for it
    psMetrics,          \* PerformanceStore.metrics
    psSnapshots,        \* PerformanceStore.memorySnapshots
    psIsEnabled,        \* PerformanceStore.isEnabled
    psMemoryInterval,   \* PerformanceStore.memoryInterval: a timer handle, NoHandle when undefined
    psTimers,           \* handles of the setInterval timers of PerformanceStore that are active
    psCreated           \* setInterval calls PerformanceStore has made

optVars == <<metrics, violations, memorySnapshots, metricListeners,
             violationListeners, memoryInterval, leakTimeout, measuring>>
pmVars == <<pmMetrics, pmViolations, pmSnapshots, pmListeners, pmInterval>>
mmVars == <<mmSnapshots, mmListeners, mmInterval, detectTimeout>>
subVars == <<handles>>
debVars == <<burst>>
psVars == <<psMetrics, psSnapshots, psIsEnabled, psMemoryInterval, psTimers,
            psCreated>>
vars == <<now, hasMemory, disposed, stale, last, optVars, pmVars, mmVars,
          subVars, debVars, psVars>>

(***************************************************************************)
(* Bounds of the exploration.                                              *)
(***************************************************************************)
\* maxMetrics, 1000 in the source, scaled down
MaxMetrics == 2
\* how far past its limit a buffer is followed
MaxOverflow == 1
\* violations are never trimmed by OptimizedPerformanceMonitor: followed up to here
MaxViolations == 2
\* MAX_MEMORY_SNAPSHOTS, 60 in the source, scaled down
MaxSnapshots == 2
\* interval ticks followed
MaxTicks == 2

(***************************************************************************)
(* Program constants.                                                      *)
(***************************************************************************)
MEMORY_SNAPSHOT_INTERVAL == 60000
MEMORY_LEAK_THRESHOLD == 20
DEBOUNCE_WAIT == 1000
ONE_HOUR == 60 * 60 * 1000

NoTimer == -1
\* Date.now() when the stores are constructed
Start == 2 * ONE_HOUR
Horizon == Start + MaxTicks * MEMORY_SNAPSHOT_INTERVAL + DEBOUNCE_WAIT
MaxClock == Horizon + ONE_HOUR + MEMORY_SNAPSHOT_INTERVAL

Min(a, b) == IF a <= b THEN a ELSE b

\* Array.prototype.slice(-n)
SliceLast(s, n) == IF Len(s) <= n THEN s ELSE SubSeq(s, Len(s) - n + 1, Len(s))

Range(s) == {s[i] : i \in 1..Len(s)}

(***************************************************************************)
(* Listeners.  "bad" throws whenever it is invoked, the others return.     *)
(***************************************************************************)
Listeners == {"good", "bad"}
Throws(l) == l = "bad"

\* Set.prototype.add: a listener already in the set keeps its place
SetAdd(reg, l) == IF l \in Range(reg) THEN reg ELSE Append(reg, l)
\* Set.prototype.delete
SetDelete(reg, l) == SelectSeq(reg, LAMBDA x : x # l)

\* Set.prototype.forEach(listener => listener(x)): listeners are invoked in
\* insertion order and the first one that throws ends the iteration.
FirstThrow(reg) ==
    IF \E i \in 1..Len(reg) : Throws(reg[i])
    THEN CHOOSE i \in 1..Len(reg) :
            Throws(reg[i]) /\ \A j \in 1..(i - 1) : ~Throws(reg[j])
    ELSE 0
forEach(reg) ==
    LET k == FirstThrow(reg)
    IN  [invoked |-> IF k = 0 THEN Range(reg) ELSE {reg[j] : j \in 1..k},
         threw   |-> k # 0]

(***************************************************************************)
(* Budgets of OptimizedPerformanceMonitor: config/performance-budgets      *)
(* exporting GLOBAL_BUDGETS and ComponentBudgets.                          *)
(***************************************************************************)
NoBudget == [has |-> FALSE, warning |-> 0, error |-> 0]
Budget(w, e) == [has |-> TRUE, warning |-> w, error |-> e]

GLOBAL_BUDGETS(type) ==
    CASE type = "render" -> Budget(16, 33)
      [] type = "event"  -> Budget(100, 300)
      [] type = "query"  -> Budget(500, 1000)
      [] type = "error"  -> Budget(0, 0)
      [] type = "memory" -> Budget(80, 90)
      [] OTHER           -> NoBudget

ComponentBudgets(component) ==
    CASE component = "AuthForm"           -> Budget(50, 100)
      [] component = "OptimizedFormField" -> Budget(8, 16)
      [] component = "SocialAuthButtons"  -> Budget(8, 16)
      [] OTHER                            -> NoBudget

(***************************************************************************)
(* Records.  metadata is kept as the two keys the telemetry code reads:    *)
(* component ("none" when absent) and success ("true", "false", "absent"). *)
(***************************************************************************)
Metric(id, type, duration, component, success) ==
    [id |-> id, type |-> type, duration |-> duration,
     component |-> component, success |-> success]
Stamped(metric, ts) ==
    [id |-> metric.id, type |-> metric.type, duration |-> metric.duration,
     timestamp |-> ts, component |-> metric.component, success |-> metric.success]
NoMetric == Metric("", "none", 0, "none", "absent")

Violation(type, component, value, threshold, severity, ts) ==
    [type |-> type, component |-> component, value |-> value,
     threshold |-> threshold, severity |-> severity, timestamp |-> ts]

(***************************************************************************)
(* OptimizedPerformanceMonitor.  A call in progress is a record            *)
(*   metrics, violations : the buffers                                     *)
(*   threw               : an exception is propagating                     *)
(*   mDispatched, vDispatched : a metric / a violation was dispatched      *)
(*   mInvoked, vInvoked  : listeners invoked so far                        *)
(*   pushed, reported    : the metrics and violations appended so far      *)
(* threaded through the methods in the order the code runs them; once an   *)
(* exception propagates the remaining statements of the callers are        *)
(* skipped.                                                                *)
(***************************************************************************)
Call(ms, vs) ==
    [metrics |-> ms, violations |-> vs, threw |-> FALSE,
     mDispatched |-> FALSE, vDispatched |-> FALSE,
     mInvoked |-> {}, vInvoked |-> {}, pushed |-> <<>>, reported |-> <<>>]

notifyViolationListeners(c) ==
    LET d == forEach(violationListeners)
    IN  [c EXCEPT !.vDispatched = TRUE, !.vInvoked = @ \cup d.invoked,
                  !.threw = d.threw]

notifyMetricListeners(c) ==
    LET d == forEach(metricListeners)
    IN  [c EXCEPT !.mDispatched = TRUE, !.mInvoked = @ \cup d.invoked,
                  !.threw = d.threw]

reportViolation(c, violation) ==
    notifyViolationListeners([c EXCEPT !.violations = Append(@, violation),
                                       !.reported = Append(@, violation)])

\* a || b on numbers: 0 (and undefined) are falsy
OrElse(a, b) == IF a # 0 THEN a ELSE b

\* the thresholds analyzeMetric compares against, when the type has a
\* global budget
resolveThresholds(metric) ==
    LET budget == GLOBAL_BUDGETS(metric.type)
        component == metric.component
        componentBudget == IF component = "none" THEN NoBudget
                           ELSE ComponentBudgets(component)
    IN  [has |-> budget.has,
         warning |-> IF componentBudget.has
                     THEN OrElse(componentBudget.warning, budget.warning)
                     ELSE budget.warning,
         error |-> IF componentBudget.has
                   THEN OrElse(componentBudget.error, budget.error)
                   ELSE budget.error]

\* metric.duration > threshold
Exceeds(duration, threshold) == duration > threshold

analyzeMetric(c, metric) ==
    LET t == resolveThresholds(metric)
    IN  IF ~t.has THEN c
        ELSE IF Exceeds(metric.duration, t.error)
             THEN reportViolation(c, Violation(metric.type, metric.component,
                        metric.duration, t.error, "error", now))
        ELSE IF Exceeds(metric.duration, t.warning)
             THEN reportViolation(c, Violation(metric.type, metric.component,
                        metric.duration, t.warning, "warning", now))
        ELSE c

pruneMetrics(c) ==
    IF Len(c.metrics) > MaxMetrics
    THEN [c EXCEPT !.metrics = SliceLast(@, MaxMetrics)]
    ELSE c

addMetric(c, metric) ==
    LET fullMetric == Stamped(metric, now)
        c1 == [c EXCEPT !.metrics = Append(@, fullMetric),
                        !.pushed = Append(@, fullMetric)]
        c2 == analyzeMetric(c1, fullMetric)
        c3 == IF c2.threw THEN c2 ELSE pruneMetrics(c2)
        c4 == IF c3.threw THEN c3 ELSE notifyMetricListeners(c3)
    IN  c4

\* private checkMemoryLeaks = debounce(() => {...}, 1000): the debounced body
checkMemoryLeaks(c) ==
    IF Len(memorySnapshots) < 2 THEN c
    ELSE LET latest == memorySnapshots[Len(memorySnapshots)]
             baseline == memorySnapshots[1]
             \* ((latest.usage - baseline.usage) / baseline.usage) * 100
             usageIncrease == ((latest.usage - baseline.usage) * 100) \div baseline.usage
         IN  IF (latest.usage - baseline.usage) * 100 > MEMORY_LEAK_THRESHOLD * baseline.usage
             THEN reportViolation(c, Violation("memory", "none", usageIncrease,
                        MEMORY_LEAK_THRESHOLD, "error", now))
             ELSE c

pruneMemorySnapshots(snaps) ==
    IF Len(snaps) > MaxSnapshots THEN SliceLast(snaps, MaxSnapshots) ELSE snaps

\* dispose() without violationListeners.clear()
disposeKeepingViolationListeners ==
    [memoryInterval |-> NoTimer, metricListeners |-> <<>>,
     violationListeners |-> violationListeners]

\* what dispose() leaves of the timer and of the two registries
dispose ==
    [memoryInterval |-> NoTimer, metricListeners |-> <<>>,
     violationListeners |-> <<>>]

\* what clearMetrics() leaves of the two buffers
clearMetrics == [metrics |-> <<>>, violations |-> <<>>]

(***************************************************************************)
(* getMetrics(options).  A key the caller leaves out is "" (type,          *)
(* component) or NoRange (timeRange): the values the truthiness tests of   *)
(* the code skip.                                                          *)
(***************************************************************************)
NoRange == [has |-> FALSE, start |-> 0, end |-> 0]
TimeRange(start, end) == [has |-> TRUE, start |-> start, end |-> end]
Options(type, timeRange, component) ==
    [type |-> type, timeRange |-> timeRange, component |-> component]

\* the time test with the end of the range left out
InTimeRangeExclusive(ts, range) == ts >= range.start /\ ts < range.end

\* m.timestamp >= options.timeRange.start && m.timestamp <= options.timeRange.end
InTimeRange(ts, range) == ts >= range.start /\ ts <= range.end

getMetrics(ms, options) ==
    LET byType == IF options.type # ""
                  THEN SelectSeq(ms, LAMBDA m : m.type = options.type)
                  ELSE ms
        byTime == IF options.timeRange.has
                  THEN SelectSeq(byType, LAMBDA m : InTimeRange(m.timestamp, options.timeRange))
                  ELSE byType
        byComponent == IF options.component # ""
                       THEN SelectSeq(byTime, LAMBDA m : m.component = options.component)
                       ELSE byTime
    IN  byComponent

(***************************************************************************)
(* calculatePercentile(values, percentile) and the arrays it reads.        *)
(* Reading an array at an index it does not have gives undefined.          *)
(* (percentile / 100) * length is computed in doubles; for every           *)
(* percentile in 0..100 and the lengths followed here the double equals    *)
(* the exact product wherever it is an integer, so Math.ceil and           *)
(* Math.floor are taken of the exact quotient.                             *)
(***************************************************************************)
Defined(v) == [defined |-> TRUE, value |-> v]
Undefined == [defined |-> FALSE, value |-> 0]

\* s[index] with a 0-based index
At(s, index) == IF index \in 0..(Len(s) - 1) THEN Defined(s[index + 1]) ELSE Undefined

RECURSIVE Insert(_, _)
Insert(x, s) ==
    IF s = <<>> THEN <<x>>
    ELSE IF x <= Head(s) THEN <<x>> \o s
    ELSE <<Head(s)>> \o Insert(x, Tail(s))

\* [...values].sort((a, b) => a - b)
RECURSIVE SortAscending(_)
SortAscending(values) ==
    IF values = <<>> THEN <<>>
    ELSE Insert(Head(values), SortAscending(Tail(values)))

\* Math.ceil(a / b) and Math.floor(a / b) for a >= 0, b > 0
CeilDiv(a, b) == (a + b - 1) \div b
FloorDiv(a, b) == a \div b

calculatePercentile(values, percentile) ==
    IF Len(values) = 0 THEN Defined(0)
    ELSE LET sorted == SortAscending(values)
             index == CeilDiv(percentile * Len(sorted), 100) - 1
         IN  At(sorted, index)

(***************************************************************************)
(* The other 95th percentiles: aggregateResults(results).p95               *)
(* (config/performance-test-config.ts) and the p95 PerformanceMonitor's    *)
(* analyzeMetric takes of the last ten durations of the metric's type.     *)
(***************************************************************************)
\* sorted[Math.floor(sorted.length * 0.95)]
floorP95(values) ==
    LET sorted == SortAscending(values)
    IN  At(sorted, FloorDiv(Len(sorted) * 95, 100))

aggregateResultsP95(results) ==
    IF Len(results) = 0 THEN Defined(0) ELSE floorP95(results)

\* .slice(-10).map(m => m.duration) of the metrics of the type
RecentWindow == 10
recentDurations(durations) == SliceLast(durations, RecentWindow)

analyzeMetricP95(durations) == floorP95(recentDurations(durations))

(***************************************************************************)
(* measureExecutionTime(fn, id, type, metadata): the metadata of the       *)
(* metric recorded on success and on failure.  The caller's metadata is    *)
(* spread after the facade's own keys.                                     *)
(***************************************************************************)
successMetadata(callerSuccess) ==
    IF callerSuccess = "absent" THEN "true" ELSE callerSuccess
failureMetadata(callerSuccess) ==
    IF callerSuccess = "absent" THEN "false" ELSE callerSuccess

\* the try block after fn() resolved, and the catch block it falls into when
\* addMetric throws
measureResolved(c, m, duration) ==
    LET c1 == addMetric(c, Metric(m.id, m.type, duration, m.component,
                                  successMetadata(m.success)))
    IN  IF ~c1.threw THEN [call |-> c1, threw |-> "none"]
        ELSE [call |-> addMetric([c1 EXCEPT !.threw = FALSE],
                          Metric(m.id, "error", duration, m.component,
                                 failureMetadata(m.success))),
              threw |-> "listener"]

\* the catch block after fn() threw or rejected
measureRejected(c, m, duration) ==
    LET c1 == addMetric(c, Metric(m.id, "error", duration, m.component,
                                  failureMetadata(m.success)))
    IN  [call |-> c1, threw |-> IF c1.threw THEN "listener" ELSE "operation"]

(***************************************************************************)
(* PerformanceMonitor (services/performance-monitor.ts) and the budgets it *)
(* imports: GLOBAL_BUDGETS, COMPONENT_BUDGETS, checkPerformanceBudget.     *)
(* A metric id is kept as its '-'-separated segments, so that              *)
(* id.split('-')[0] is Head(id).                                           *)
(***************************************************************************)
PM_GLOBAL_BUDGETS(type) ==
    CASE type = "render"     -> Budget(16, 33)
      [] type = "query"      -> Budget(200, 500)
      [] type = "mutation"   -> Budget(300, 1000)
      [] type = "validation" -> Budget(10, 50)
      [] type = "navigation" -> Budget(300, 1000)
      [] OTHER               -> NoBudget

COMPONENT_BUDGETS(component) ==
    CASE component = "Auth"        -> Budget(100, 200)
      [] component = "Dashboard"   -> Budget(150, 300)
      [] component = "VirtualList" -> Budget(16, 32)
      [] component = "Form"        -> Budget(50, 100)
      [] component = "Modal"       -> Budget(50, 100)
      [] component = "Table"       -> Budget(100, 200)
      [] OTHER                     -> NoBudget

\* component is "" when the caller passes none (or an empty string: falsy)
checkPerformanceBudget(type, value, component) ==
    LET budget == IF component # "" THEN COMPONENT_BUDGETS(component)
                  ELSE PM_GLOBAL_BUDGETS(type)
    IN  IF ~budget.has
        THEN [isWarning |-> FALSE, isError |-> FALSE, budget |-> NoBudget]
        ELSE [isWarning |-> value >= budget.warning /\ value < budget.error,
              isError   |-> value >= budget.error,
              budget    |-> budget]

PMMetric(id, type, duration, ts) ==
    [id |-> id, type |-> type, duration |-> duration, timestamp |-> ts]

\* both kinds of event go to the one listener set
pmNotifyMetric(c) ==
    LET d == forEach(pmListeners)
    IN  [c EXCEPT !.mDispatched = TRUE, !.mInvoked = @ \cup d.invoked,
                  !.threw = d.threw]

pmNotifyListeners(c) ==
    LET d == forEach(pmListeners)
    IN  [c EXCEPT !.vDispatched = TRUE, !.vInvoked = @ \cup d.invoked,
                  !.threw = d.threw]

pmReportViolation(c, violation) ==
    pmNotifyListeners([c EXCEPT !.violations = Append(@, violation),
                                !.reported = Append(@, violation)])

pmViolationOf(result, type, component, duration, ts) ==
    Violation(type, component, duration,
              IF result.isError THEN result.budget.error ELSE result.budget.warning,
              IF result.isError THEN "error" ELSE "warning", ts)

pmAnalyzeMetric(c, metric) ==
    LET componentName == Head(metric.id)
        byComponent == checkPerformanceBudget(metric.type, metric.duration, componentName)
        c1 == IF COMPONENT_BUDGETS(componentName).has
                 /\ (byComponent.isError \/ byComponent.isWarning)
              THEN pmReportViolation(c, pmViolationOf(byComponent, metric.type,
                        componentName, metric.duration, metric.timestamp))
              ELSE c
        global == checkPerformanceBudget(metric.type, metric.duration, "")
    IN  IF c1.threw THEN c1
        ELSE IF global.isError \/ global.isWarning
             THEN pmReportViolation(c1, pmViolationOf(global, metric.type,
                        "none", metric.duration, metric.timestamp))
        ELSE c1

pmPruneMetrics(c) ==
    [c EXCEPT
        !.metrics = SliceLast(SelectSeq(@, LAMBDA m : now - m.timestamp < ONE_HOUR),
                              MaxMetrics),
        !.violations = SelectSeq(@, LAMBDA v : now - v.timestamp < ONE_HOUR)]

pmAddMetric(c, metric) ==
    LET c1 == pmNotifyMetric([c EXCEPT !.metrics = Append(@, metric),
                                       !.pushed = Append(@, metric)])
        c2 == IF c1.threw THEN c1
              ELSE IF Len(c1.metrics) > MaxMetrics
                   THEN [c1 EXCEPT !.metrics = SliceLast(@, MaxMetrics)]
              ELSE c1
        c3 == IF c2.threw THEN c2 ELSE pmAnalyzeMetric(c2, metric)
        c4 == IF c3.threw THEN c3 ELSE pmPruneMetrics(c3)
    IN  c4

pmPruneMemorySnapshots(snaps) ==
    IF Len(snaps) > MaxSnapshots THEN SliceLast(snaps, MaxSnapshots) ELSE snaps

\* checkMemoryLeaks(currentSnapshot), called with the snapshot already pushed
pmCheckMemoryLeaks(c, snaps, currentSnapshot) ==
    IF Len(snaps) < 2 THEN c
    ELSE LET previousSnapshot == snaps[Len(snaps) - 1]
         IN  IF (currentSnapshot.usage - previousSnapshot.usage) * 100
                    > MEMORY_LEAK_THRESHOLD * previousSnapshot.usage
             THEN pmReportViolation(c, Violation("event", "none",
                        currentSnapshot.usage,
                        (previousSnapshot.usage * (100 + MEMORY_LEAK_THRESHOLD)) \div 100,
                        "warning", currentSnapshot.timestamp))
             ELSE c

\* what dispose() leaves of the store
pmDispose ==
    [interval |-> NoTimer, metrics |-> <<>>, violations |-> <<>>,
     memorySnapshots |-> <<>>, listeners |-> <<>>]

(***************************************************************************)
(* MemoryMonitor (services/memory-monitor.ts).  It records into            *)
(* PerformanceMonitor, which it imports from './performance-monitor'.      *)
(***************************************************************************)
\* MAX_SNAPSHOTS, 360 in the source, scaled down
MaxMMSnapshots == 3
\* the window of detectLeaks, slice(-10) in the source, scaled down
LeakWindow == 2
\* interval ticks of MemoryMonitor followed
MMTicks == 3

SNAPSHOT_INTERVAL == 10000
\* LEAK_THRESHOLD = 0.2.  Fractions are kept as numerator and denominator,
\* the denominator positive.
Fraction(n, d) == [num |-> n, den |-> d]
LEAK_THRESHOLD == Fraction(2, 10)
\* a > b
FractionGreater(a, b) == a.num * b.den > b.num * a.den

MemorySnapshot(ts, used) == [timestamp |-> ts, usedJSHeapSize |-> used]

LeakReport(ts, usageIncrease, component, snapshots) ==
    [timestamp |-> ts, usageIncrease |-> usageIncrease,
     component |-> component, snapshots |-> snapshots]

\* pruneSnapshots() that evicts nothing
keepSnapshots(snaps) == snaps

pruneSnapshots(snaps) ==
    IF Len(snaps) > MaxMMSnapshots THEN SliceLast(snaps, MaxMMSnapshots) ELSE snaps

\* takeSnapshot() with the guard on window.performance.memory removed
takeSnapshotUnguarded(snaps, used) ==
    pruneSnapshots(Append(snaps, MemorySnapshot(now, used)))

\* takeSnapshot(), up to pruneSnapshots(): what it leaves in this.snapshots
takeSnapshot(snaps, used) ==
    IF ~hasMemory THEN snaps
    ELSE pruneSnapshots(Append(snaps, MemorySnapshot(now, used)))

\* takeSnapshot(), from performanceMonitor.addMetric on
trackMemoryUsage(c, used) ==
    IF ~hasMemory THEN c
    ELSE pmAddMetric(c, PMMetric(<<"memory", "usage">>, "memory", used, now))

mmNotifyListeners(c, report) ==
    LET d == forEach(mmListeners)
    IN  [c EXCEPT !.reported = Append(@, report), !.vDispatched = TRUE,
                  !.vInvoked = @ \cup d.invoked, !.threw = d.threw]

\* metric.metadata?.component: "none" when the metric has no metadata or no
\* such key (or a falsy one)
componentOf(metric) ==
    IF "component" \in DOMAIN metric THEN metric.component ELSE "none"

\* metric.metadata.memoryUsage || 0
memoryUsageOf(metric) ==
    IF "memoryUsage" \in DOMAIN metric THEN metric.memoryUsage ELSE 0

\* the keys of componentMetrics, in the order Map.set first saw them
RECURSIVE componentKeys(_, _)
componentKeys(ms, seen) ==
    IF ms = <<>> THEN seen
    ELSE LET component == componentOf(Head(ms))
         IN  IF component = "none" \/ component \in Range(seen)
             THEN componentKeys(Tail(ms), seen)
             ELSE componentKeys(Tail(ms), Append(seen, component))

\* componentMetrics.get(component) once metrics.forEach is done
RECURSIVE componentStats(_, _)
componentStats(ms, component) ==
    IF ms = <<>> THEN [count |-> 0, totalMemory |-> 0]
    ELSE LET rest == componentStats(Tail(ms), component)
         IN  IF componentOf(Head(ms)) = component
             THEN [count |-> rest.count + 1,
                   totalMemory |-> rest.totalMemory + memoryUsageOf(Head(ms))]
             ELSE rest

\* componentMetrics.forEach((stats, component) => {...}) from the key at the
\* head of keys on, with maxScore and suspiciousComponent as they stand
RECURSIVE highestScore(_, _, _, _)
highestScore(keys, ms, maxScore, suspiciousComponent) ==
    IF keys = <<>> THEN suspiciousComponent
    ELSE LET stats == componentStats(ms, Head(keys))
             score == Fraction(stats.totalMemory * stats.count, Len(ms))
         IN  IF FractionGreater(score, maxScore)
             THEN highestScore(Tail(keys), ms, score, Head(keys))
             ELSE highestScore(Tail(keys), ms, maxScore, suspiciousComponent)

\* "none" is undefined
findSuspiciousComponent(ms) ==
    highestScore(componentKeys(ms, <<>>), ms, Fraction(0, 1), "none")

\* private detectLeaks = debounce(() => {...}, 1000): the debounced body
detectLeaks(c) ==
    IF Len(mmSnapshots) < 2 THEN c
    ELSE LET recentSnapshots == SliceLast(mmSnapshots, LeakWindow)
             oldestRecent == recentSnapshots[1]
             latest == recentSnapshots[Len(recentSnapshots)]
             usageIncrease == Fraction(latest.usedJSHeapSize - oldestRecent.usedJSHeapSize,
                                       oldestRecent.usedJSHeapSize)
             recentMetrics == SelectSeq(c.metrics, LAMBDA m :
                                  /\ m.timestamp >= oldestRecent.timestamp
                                  /\ m.timestamp <= latest.timestamp)
         IN  IF FractionGreater(usageIncrease, LEAK_THRESHOLD)
             THEN mmNotifyListeners(c, LeakReport(now, usageIncrease,
                        findSuspiciousComponent(recentMetrics), recentSnapshots))
             ELSE c

\* dispose() without this.snapshots = []
mmDisposeKeepingSnapshots ==
    [interval |-> NoTimer, snapshots |-> mmSnapshots, listeners |-> <<>>]

\* what dispose() leaves of the watcher
mmDispose ==
    [interval |-> NoTimer, snapshots |-> <<>>, listeners |-> <<>>]

(***************************************************************************)
(* debounce(fn, wait) (utils/route-guard.tsx) as MemoryMonitor.detectLeaks *)
(* uses it: one closure variable timeout, here detectTimeout.              *)
(***************************************************************************)
\* executedFunction that leaves a pending timeout in place
executedFunctionKeeping(timeout, wait) ==
    IF timeout # NoTimer THEN timeout ELSE now + wait

\* executedFunction(...args): clearTimeout(timeout); timeout =
\* setTimeout(later, wait).  The due time of the timeout it leaves.
executedFunction(timeout, wait) == now + wait

\* A burst is a run of calls each less than the window after the one before.
NoBurst == [calls |-> 0, lastCall |-> 0, runs |-> 0, ranAt |-> 0]

\* the debounced function is called
called(b) ==
    IF b.calls > 0 /\ now - b.lastCall < DEBOUNCE_WAIT
    THEN [b EXCEPT !.calls = @ + 1, !.lastCall = now]
    ELSE [calls |-> 1, lastCall |-> now, runs |-> 0, ranAt |-> 0]

\* later() runs fn
ran(b) == [b EXCEPT !.runs = @ + 1, !.ranAt = now]

(***************************************************************************)
(* PerformanceStore (utils/route-guard.tsx).  A timer handle is the number *)
(* of the setInterval call that returned it.                               *)
(***************************************************************************)
NoHandle == 0

\* the fields of the store
Store ==
    [metrics |-> psMetrics, memorySnapshots |-> psSnapshots,
     isEnabled |-> psIsEnabled, memoryInterval |-> psMemoryInterval,
     timers |-> psTimers, created |-> psCreated]

\* clearInterval(handle): clearing a handle that is not active does nothing
clearInterval(st, handle) == [st EXCEPT !.timers = @ \ {handle}]

\* this.memoryInterval = setInterval(...)
setInterval(st) ==
    [st EXCEPT !.created = @ + 1, !.timers = @ \cup {st.created + 1},
               !.memoryInterval = st.created + 1]

psStartMemoryTracking(st) ==
    setInterval(IF st.memoryInterval # NoHandle
                THEN clearInterval(st, st.memoryInterval)
                ELSE st)

psSetEnabled(st, enabled) ==
    LET st1 == [st EXCEPT !.isEnabled = enabled]
    IN  IF ~enabled /\ st1.memoryInterval # NoHandle
        THEN [clearInterval(st1, st1.memoryInterval) EXCEPT !.memoryInterval = NoHandle]
        ELSE IF enabled /\ st1.memoryInterval = NoHandle
        THEN psStartMemoryTracking(st1)
        ELSE st1

psDisposeStore(st) ==
    LET st1 == IF st.memoryInterval # NoHandle
               THEN clearInterval(st, st.memoryInterval)
               ELSE st
    IN  [st1 EXCEPT !.metrics = <<>>, !.memorySnapshots = <<>>,
                    !.isEnabled = FALSE]

psPruneMetrics(ms) ==
    SliceLast(SelectSeq(ms, LAMBDA m : now - m.timestamp < ONE_HOUR), MaxMetrics)

\* addMetric(metric); analyzeMetric only writes to the console
psAddMetric(st, metric) ==
    IF ~st.isEnabled THEN st
    ELSE [st EXCEPT !.metrics = psPruneMetrics(Append(@, Stamped(metric, now)))]

\* the callback of the interval; checkMemoryLeaks only writes to the console
psIntervalCallback(st, usage) ==
    IF ~st.isEnabled THEN st
    ELSE IF hasMemory
    THEN [st EXCEPT !.memorySnapshots =
              pruneMemorySnapshots(Append(@, [timestamp |-> now, usage |-> usage]))]
    ELSE st

psClearMetrics(st) == [st EXCEPT !.metrics = <<>>, !.memorySnapshots = <<>>]

\* the store as its constructor leaves it in a browser: startMemoryTracking()
\* has set the first interval
InitStore ==
    /\ psMetrics = <<>>
    /\ psSnapshots = <<>>
    /\ psIsEnabled = TRUE
    /\ psMemoryInterval = 1
    /\ psTimers = {1}
    /\ psCreated = 1

(***************************************************************************)
(* The observer record.                                                    *)
(***************************************************************************)
Observed(op, c, threw, input, outcome) ==
    [op |-> op, threw |-> threw, input |-> input, outcome |-> outcome,
     mDispatched |-> c.mDispatched, vDispatched |-> c.vDispatched,
     mInvoked |-> c.mInvoked, vInvoked |-> c.vInvoked,
     pushed |-> c.pushed, reported |-> c.reported]
Quiet(op) == Observed(op, Call(<<>>, <<>>), "none", NoMetric, "none")
ThrewKind(c) == IF c.threw THEN "listener" ELSE "none"

Idle == [pc |-> "idle", startTime |-> 0, input |-> NoMetric]


(***************************************************************************)
(* Inputs.                                                                 *)
(***************************************************************************)
\* direct callers of addMetric (components, the PerformanceObserver callback)
Inputs ==
    { Metric("X-render", "render", 16, "none", "absent"),
      Metric("X-render", "render", 33, "none", "absent"),
      Metric("AuthForm-render", "render", 40, "AuthForm", "absent"),
      Metric("AuthForm-save", "mutation", 5000, "AuthForm", "absent") }

\* callers of measureExecutionTime
MeasureInputs ==
    { Metric("op", "event", 0, "none", s) : s \in {"absent", "true", "false"} }

\* direct callers while the memory timers run
TimerInputs == { Metric("X-render", "render", 40, "none", "absent") }

HeapValues == {1000000, 1300000}

Fits(c) ==
    /\ Len(c.metrics) <= MaxMetrics + MaxOverflow
    /\ Len(c.violations) <= MaxViolations

(***************************************************************************)
(* Actions of OptimizedPerformanceMonitor and of measureExecutionTime.     *)
(***************************************************************************)
InitCommon ==
    /\ now = Start
    /\ metrics = <<>>
    /\ violations = <<>>
    /\ memorySnapshots = <<>>
    /\ metricListeners = <<>>
    /\ violationListeners = <<>>
    /\ leakTimeout = NoTimer
    /\ measuring = Idle
    /\ disposed = FALSE
    /\ stale = [metric |-> {}, violation |-> {}]
    /\ last = Quiet("init")
    /\ pmMetrics = <<>>
    /\ pmViolations = <<>>
    /\ pmSnapshots = <<>>
    /\ pmListeners = <<>>
    /\ handles = <<>>
    /\ burst = NoBurst
    /\ InitStore

\* no MemoryMonitor in the page
NoMemoryMonitor ==
    /\ mmSnapshots = <<>>
    /\ mmListeners = <<>>
    /\ mmInterval = NoTimer
    /\ detectTimeout = NoTimer

\* OptimizedPerformanceMonitor constructed on a host without
\* performance.memory: startMemoryTracking sets no interval
Init ==
    /\ hasMemory = FALSE
    /\ memoryInterval = NoTimer
    /\ pmInterval = NoTimer
    /\ NoMemoryMonitor
    /\ InitCommon
\* OptimizedPerformanceMonitor constructed on a host with performance.memory
InitMemory ==
    /\ hasMemory = TRUE
    /\ memoryInterval = Start + MEMORY_SNAPSHOT_INTERVAL
    /\ pmInterval = NoTimer
    /\ NoMemoryMonitor
    /\ InitCommon
\* PerformanceMonitor constructed: startMemoryTracking always sets its interval
InitPM ==
    /\ hasMemory = TRUE
    /\ memoryInterval = NoTimer
    /\ pmInterval = Start + MEMORY_SNAPSHOT_INTERVAL
    /\ NoMemoryMonitor
    /\ InitCommon

AddMetric(m) ==
    LET c == addMetric(Call(metrics, violations), m)
    IN  /\ Fits(c)
        /\ metrics' = c.metrics
        /\ violations' = c.violations
        /\ last' = Observed("addMetric", c, ThrewKind(c), m, "none")
        /\ UNCHANGED <<now, hasMemory, memorySnapshots, metricListeners,
                       violationListeners, memoryInterval, leakTimeout,
                       measuring, disposed, stale, pmVars,
                   mmVars, subVars, debVars, psVars>>

MeasureStart(m) ==
    /\ measuring.pc = "idle"
    /\ measuring' = [pc |-> "awaiting", startTime |-> now, input |-> m]
    /\ last' = Quiet("measureStart")
    /\ UNCHANGED <<now, hasMemory, metrics, violations, memorySnapshots,
                   metricListeners, violationListeners, memoryInterval,
                   leakTimeout, disposed, stale, pmVars,
                   mmVars, subVars, debVars, psVars>>

MeasureSettle(outcome) ==
    /\ measuring.pc = "awaiting"
    /\ \E r \in { IF outcome = "ok"
                   THEN measureResolved(Call(metrics, violations), measuring.input,
                                        now - measuring.startTime)
                   ELSE measureRejected(Call(metrics, violations), measuring.input,
                                        now - measuring.startTime) } :
           /\ Fits(r.call)
           /\ metrics' = r.call.metrics
           /\ violations' = r.call.violations
           /\ last' = Observed("measure", r.call, r.threw, measuring.input, outcome)
    /\ measuring' = Idle
    /\ UNCHANGED <<now, hasMemory, memorySnapshots, metricListeners,
                   violationListeners, memoryInterval, leakTimeout,
                   disposed, stale, pmVars,
                   mmVars, subVars, debVars, psVars>>

\* the setInterval callback of startMemoryTracking: takeMemorySnapshot(),
\* checkMemoryLeaks() (debounced), pruneMemorySnapshots().  A listener that
\* throws inside takeMemorySnapshot's addMetric ends the callback there.
MemoryTick(usage) ==
    /\ memoryInterval # NoTimer
    /\ memoryInterval <= now
    /\ LET snapshot == [timestamp |-> now, usage |-> usage]
           pushedSnaps == IF hasMemory THEN Append(memorySnapshots, snapshot)
                          ELSE memorySnapshots
           c == IF hasMemory
                THEN addMetric(Call(metrics, violations),
                               Metric("memory-snapshot", "memory", 0, "none", "absent"))
                ELSE Call(metrics, violations)
       IN  /\ Fits(c)
           /\ Len(pushedSnaps) <= MaxSnapshots + MaxOverflow
           /\ metrics' = c.metrics
           /\ violations' = c.violations
           /\ memorySnapshots' = IF c.threw THEN pushedSnaps
                                 ELSE pruneMemorySnapshots(pushedSnaps)
           /\ leakTimeout' = IF c.threw THEN leakTimeout ELSE now + DEBOUNCE_WAIT
           /\ last' = Observed("memoryTick", c, ThrewKind(c), NoMetric, "none")
    /\ memoryInterval' = memoryInterval + MEMORY_SNAPSHOT_INTERVAL
    /\ UNCHANGED <<now, hasMemory, metricListeners, violationListeners,
                   measuring, disposed, stale, pmVars,
                   mmVars, subVars, debVars, psVars>>

\* debounce's later(): the pending timeout fires and runs checkMemoryLeaks' body
LeakCheck ==
    /\ leakTimeout # NoTimer
    /\ leakTimeout <= now
    /\ LET c == checkMemoryLeaks(Call(metrics, violations))
       IN  /\ Fits(c)
           /\ violations' = c.violations
           /\ last' = Observed("leakCheck", c, ThrewKind(c), NoMetric, "none")
    /\ leakTimeout' = NoTimer
    /\ UNCHANGED <<now, hasMemory, metrics, memorySnapshots, metricListeners,
                   violationListeners, memoryInterval, measuring, disposed,
                   stale, pmVars,
                   mmVars, subVars, debVars, psVars>>

OnMetric(l) ==
    /\ metricListeners' = SetAdd(metricListeners, l)
    /\ stale' = [stale EXCEPT !.metric = @ \ {l}]
    /\ last' = Quiet("onMetric")
    /\ UNCHANGED <<now, hasMemory, metrics, violations, memorySnapshots,
                   violationListeners, memoryInterval, leakTimeout, measuring,
                   disposed, pmVars,
                   mmVars, subVars, debVars, psVars>>

OnViolation(l) ==
    /\ violationListeners' = SetAdd(violationListeners, l)
    /\ stale' = [stale EXCEPT !.violation = @ \ {l}]
    /\ last' = Quiet("onViolation")
    /\ UNCHANGED <<now, hasMemory, metrics, violations, memorySnapshots,
                   metricListeners, memoryInterval, leakTimeout, measuring,
                   disposed, pmVars,
                   mmVars, subVars, debVars, psVars>>

\* the functions onMetric / onViolation return
UnsubscribeMetric(l) ==
    /\ l \in Range(metricListeners)
    /\ metricListeners' = SetDelete(metricListeners, l)
    /\ last' = Quiet("unsubscribeMetric")
    /\ UNCHANGED <<now, hasMemory, metrics, violations, memorySnapshots,
                   violationListeners, memoryInterval, leakTimeout, measuring,
                   disposed, stale, pmVars,
                   mmVars, subVars, debVars, psVars>>

UnsubscribeViolation(l) ==
    /\ l \in Range(violationListeners)
    /\ violationListeners' = SetDelete(violationListeners, l)
    /\ last' = Quiet("unsubscribeViolation")
    /\ UNCHANGED <<now, hasMemory, metrics, violations, memorySnapshots,
                   metricListeners, memoryInterval, leakTimeout, measuring,
                   disposed, stale, pmVars,
                   mmVars, subVars, debVars, psVars>>

ClearMetrics ==
    /\ metrics' = clearMetrics.metrics
    /\ violations' = clearMetrics.violations
    /\ last' = Quiet("clearMetrics")
    /\ UNCHANGED <<now, hasMemory, memorySnapshots, metricListeners,
                   violationListeners, memoryInterval, leakTimeout, measuring,
                   disposed, stale, pmVars,
                   mmVars, subVars, debVars, psVars>>

Dispose ==
    /\ memoryInterval' = dispose.memoryInterval
    /\ metricListeners' = dispose.metricListeners
    /\ violationListeners' = dispose.violationListeners
    /\ disposed' = TRUE
    /\ stale' = [stale EXCEPT !.metric = @ \cup Range(metricListeners),
                              !.violation = @ \cup Range(violationListeners)]
    /\ last' = Quiet("dispose")
    /\ UNCHANGED <<now, hasMemory, metrics, violations, memorySnapshots,
                   leakTimeout, measuring, pmVars,
                   mmVars, subVars, debVars, psVars>>

\* time passes, up to the next timer that is due
Due(t) == IF t = NoTimer THEN MaxClock + 1 ELSE t
Advance(dt) ==
    LET nextDue == Min(Due(pmInterval), Min(Due(memoryInterval), Due(leakTimeout)))
        target == Min(now + dt, nextDue)
    IN  /\ target > now
        /\ target <= MaxClock
        /\ (dt = MEMORY_SNAPSHOT_INTERVAL \/ nextDue <= MaxClock) => target <= Horizon
        /\ now' = target
        /\ last' = Quiet("advance")
        /\ UNCHANGED <<hasMemory, optVars, disposed, stale, pmVars,
                   mmVars, subVars, debVars, psVars>>

(***************************************************************************)
(* Actions of PerformanceMonitor.                                          *)
(***************************************************************************)
\* callers pass the timestamp: Date.now(), or one of 61 minutes ago
PMInputs ==
    { PMMetric(<<"Auth", "render">>, "render", 80, now),
      PMMetric(<<"Auth", "render">>, "render", 80, now - (ONE_HOUR + MEMORY_SNAPSHOT_INTERVAL)),
      PMMetric(<<"Auth", "render">>, "render", 210, now),
      PMMetric(<<"test">>, "render", 10, now) }

PMFits(c) ==
    /\ Len(c.metrics) <= MaxMetrics + MaxOverflow
    /\ Len(c.violations) <= MaxViolations

PMAddMetric(m) ==
    LET c == pmAddMetric(Call(pmMetrics, pmViolations), m)
    IN  /\ PMFits(c)
        /\ pmMetrics' = c.metrics
        /\ pmViolations' = c.violations
        /\ last' = Observed("addMetric", c, ThrewKind(c), m, "none")
        /\ UNCHANGED <<now, hasMemory, optVars, pmSnapshots, pmListeners,
                       pmInterval, disposed, stale,
                   mmVars, subVars, debVars, psVars>>

\* the setInterval callback of startMemoryTracking
PMMemoryTick(usage) ==
    /\ pmInterval # NoTimer
    /\ pmInterval <= now
    /\ LET snapshot == [timestamp |-> now, usage |-> usage]
           snaps == pmPruneMemorySnapshots(Append(pmSnapshots, snapshot))
           c == IF hasMemory
                THEN pmCheckMemoryLeaks(Call(pmMetrics, pmViolations), snaps, snapshot)
                ELSE Call(pmMetrics, pmViolations)
       IN  /\ PMFits(c)
           /\ pmSnapshots' = IF hasMemory THEN snaps ELSE pmSnapshots
           /\ pmViolations' = c.violations
           /\ last' = Observed("memoryTick", c, ThrewKind(c), NoMetric, "none")
    /\ pmInterval' = pmInterval + MEMORY_SNAPSHOT_INTERVAL
    /\ UNCHANGED <<now, hasMemory, optVars, pmMetrics, pmListeners,
                   disposed, stale,
                   mmVars, subVars, debVars, psVars>>

PMSubscribe(l) ==
    /\ pmListeners' = SetAdd(pmListeners, l)
    /\ stale' = [stale EXCEPT !.metric = @ \ {l}]
    /\ last' = Quiet("subscribe")
    /\ UNCHANGED <<now, hasMemory, optVars, pmMetrics, pmViolations,
                   pmSnapshots, pmInterval, disposed,
                   mmVars, subVars, debVars, psVars>>

PMUnsubscribe(l) ==
    /\ l \in Range(pmListeners)
    /\ pmListeners' = SetDelete(pmListeners, l)
    /\ last' = Quiet("unsubscribe")
    /\ UNCHANGED <<now, hasMemory, optVars, pmMetrics, pmViolations,
                   pmSnapshots, pmInterval, disposed, stale,
                   mmVars, subVars, debVars, psVars>>

PMDispose ==
    /\ pmInterval' = pmDispose.interval
    /\ pmMetrics' = pmDispose.metrics
    /\ pmViolations' = pmDispose.violations
    /\ pmSnapshots' = pmDispose.memorySnapshots
    /\ pmListeners' = pmDispose.listeners
    /\ disposed' = TRUE
    /\ stale' = [stale EXCEPT !.metric = @ \cup Range(pmListeners)]
    /\ last' = Quiet("dispose")
    /\ UNCHANGED <<now, hasMemory, optVars,
                   mmVars, subVars, debVars, psVars>>

(***************************************************************************)
(* Actions of MemoryMonitor.                                               *)
(***************************************************************************)
MMHeapValues == {1000000, 1100000, 1300000}

MMHorizon == Start + MMTicks * SNAPSHOT_INTERVAL + DEBOUNCE_WAIT

\* both singletons constructed: PerformanceMonitor has set its interval,
\* MemoryMonitor.initialize() has taken its first snapshot and set its own
InitMM ==
    /\ now = Start
    /\ hasMemory \in BOOLEAN
    /\ pmListeners = <<>>
    /\ \E used \in MMHeapValues :
          /\ mmSnapshots = takeSnapshot(<<>>, used)
          /\ pmMetrics = trackMemoryUsage(Call(<<>>, <<>>), used).metrics
    /\ mmListeners = <<>>
    /\ mmInterval = Start + SNAPSHOT_INTERVAL
    /\ detectTimeout = NoTimer
    /\ pmViolations = <<>>
    /\ pmSnapshots = <<>>
    /\ pmInterval = Start + MEMORY_SNAPSHOT_INTERVAL
    /\ metrics = <<>>
    /\ violations = <<>>
    /\ memorySnapshots = <<>>
    /\ metricListeners = <<>>
    /\ violationListeners = <<>>
    /\ memoryInterval = NoTimer
    /\ leakTimeout = NoTimer
    /\ measuring = Idle
    /\ disposed = FALSE
    /\ stale = [metric |-> {}, violation |-> {}]
    /\ last = Quiet("init")
    /\ handles = <<>>
    /\ burst = NoBurst
    /\ InitStore

\* the setInterval callback of initialize(): takeSnapshot(), detectLeaks().
\* A listener of PerformanceMonitor that throws inside addMetric ends the
\* callback before detectLeaks() is called.
MMTick(used) ==
    /\ mmInterval # NoTimer
    /\ mmInterval <= now
    /\ LET c == trackMemoryUsage(Call(pmMetrics, pmViolations), used)
       IN  /\ PMFits(c)
           /\ mmSnapshots' = takeSnapshot(mmSnapshots, used)
           /\ pmMetrics' = c.metrics
           /\ pmViolations' = c.violations
           /\ detectTimeout' = IF c.threw THEN detectTimeout
                               ELSE executedFunction(detectTimeout, DEBOUNCE_WAIT)
           /\ burst' = IF c.threw THEN burst ELSE called(burst)
           /\ last' = Observed("mmTick", c, ThrewKind(c), NoMetric, "none")
    /\ mmInterval' = mmInterval + SNAPSHOT_INTERVAL
    /\ UNCHANGED <<now, hasMemory, optVars, pmSnapshots, pmListeners, pmInterval,
                   mmListeners, disposed, stale, subVars, psVars>>

\* debounce's later(): the pending timeout fires and runs detectLeaks' body
MMLeakCheck ==
    /\ detectTimeout # NoTimer
    /\ detectTimeout <= now
    /\ LET c == detectLeaks(Call(pmMetrics, pmViolations))
       IN  last' = Observed("mmLeakCheck", c, ThrewKind(c), NoMetric, "none")
    /\ detectTimeout' = NoTimer
    /\ burst' = ran(burst)
    /\ UNCHANGED <<now, hasMemory, optVars, pmVars, mmSnapshots, mmListeners,
                   mmInterval, disposed, stale, subVars, psVars>>

OnMemoryLeak(l) ==
    /\ mmListeners' = SetAdd(mmListeners, l)
    /\ stale' = [stale EXCEPT !.violation = @ \ {l}]
    /\ last' = Quiet("onMemoryLeak")
    /\ UNCHANGED <<now, hasMemory, optVars, pmVars, mmSnapshots, mmInterval,
                   detectTimeout, disposed, subVars, debVars, psVars>>

\* the function onMemoryLeak returns
MMUnsubscribe(l) ==
    /\ l \in Range(mmListeners)
    /\ mmListeners' = SetDelete(mmListeners, l)
    /\ last' = Quiet("unsubscribe")
    /\ UNCHANGED <<now, hasMemory, optVars, pmVars, mmSnapshots, mmInterval,
                   detectTimeout, disposed, stale, subVars, debVars, psVars>>

MMDispose ==
    /\ mmInterval' = mmDispose.interval
    /\ mmSnapshots' = mmDispose.snapshots
    /\ mmListeners' = mmDispose.listeners
    /\ disposed' = TRUE
    /\ stale' = [stale EXCEPT !.violation = @ \cup Range(mmListeners)]
    /\ last' = Quiet("dispose")
    /\ UNCHANGED <<now, hasMemory, optVars, pmVars, detectTimeout, subVars, debVars, psVars>>

\* time passes, up to the next timer that is due
MMAdvance ==
    LET nextDue == Min(Due(pmInterval), Min(Due(mmInterval), Due(detectTimeout)))
        target == Min(now + SNAPSHOT_INTERVAL, nextDue)
    IN  /\ target > now
        /\ target <= MMHorizon
        /\ now' = target
        /\ last' = Quiet("advance")
        /\ UNCHANGED <<hasMemory, optVars, disposed, stale, pmVars, mmVars,
                       subVars, debVars, psVars>>

(***************************************************************************)
(* Bursts of detectLeaks calls.  A timeout that is due runs before the     *)
(* next call: the event loop is not kept busy past a timer's due time.     *)
(***************************************************************************)
\* calls followed in one burst
MaxBurst == 3
DebounceStep == DEBOUNCE_WAIT \div 2
DebounceHorizon == Start + SNAPSHOT_INTERVAL + MaxBurst * DEBOUNCE_WAIT

\* this.detectLeaks()
DetectLeaks ==
    /\ detectTimeout = NoTimer \/ detectTimeout > now
    /\ called(burst).calls <= MaxBurst
    /\ detectTimeout' = executedFunction(detectTimeout, DEBOUNCE_WAIT)
    /\ burst' = called(burst)
    /\ last' = Quiet("detectLeaks")
    /\ UNCHANGED <<now, hasMemory, optVars, pmVars, mmSnapshots, mmListeners,
                   mmInterval, disposed, stale, subVars, psVars>>

\* time passes, up to the next timer that is due
DebounceAdvance ==
    LET nextDue == Min(Due(mmInterval), Due(detectTimeout))
        target == Min(now + DebounceStep, nextDue)
    IN  /\ target > now
        /\ target <= DebounceHorizon
        /\ now' = target
        /\ last' = Quiet("advance")
        /\ UNCHANGED <<hasMemory, optVars, disposed, stale, pmVars, mmVars,
                       subVars, debVars, psVars>>

(***************************************************************************)
(* Actions of PerformanceStore.                                            *)
(***************************************************************************)
\* setInterval calls followed
MaxTimers == 3

\* the store after a call, and what the call found
StoreBecomes(st, op) ==
    /\ st.created <= MaxTimers
    /\ psMetrics' = st.metrics
    /\ psSnapshots' = st.memorySnapshots
    /\ psIsEnabled' = st.isEnabled
    /\ psMemoryInterval' = st.memoryInterval
    /\ psTimers' = st.timers
    /\ psCreated' = st.created
    /\ last' = Quiet(op) @@ [wasEnabled |-> psIsEnabled, before |-> psMetrics]
    /\ UNCHANGED <<now, hasMemory, optVars, disposed, stale, pmVars, mmVars,
                   subVars, debVars>>

InitPS ==
    /\ hasMemory \in BOOLEAN
    /\ memoryInterval = NoTimer
    /\ pmInterval = NoTimer
    /\ NoMemoryMonitor
    /\ InitCommon

PSAddMetric(m) == StoreBecomes(psAddMetric(Store, m), "psAddMetric")

PSSetEnabled(enabled) == StoreBecomes(psSetEnabled(Store, enabled), "psSetEnabled")

PSDispose == StoreBecomes(psDisposeStore(Store), "psDispose")

PSClearMetrics == StoreBecomes(psClearMetrics(Store), "psClearMetrics")

\* an interval that is active fires
PSIntervalCallback(handle, usage) ==
    /\ handle \in psTimers
    /\ StoreBecomes(psIntervalCallback(Store, usage), "psIntervalCallback")

(***************************************************************************)
(* Subscriptions whose caller keeps the function onMetric / onViolation    *)
(* returned, and calls it any number of times.                             *)
(***************************************************************************)
\* unsubscribe functions followed
MaxHandles == 3
\* calls of one unsubscribe function followed
MaxCalls == 2

Kinds == {"metric", "violation"}

\* the closure () => this.metricListeners.delete(listener) and how often it
\* has been called
Handle(kind, l) == [kind |-> kind, listener |-> l, calls |-> 0]

Subscribe(kind, l) ==
    /\ Len(handles) < MaxHandles
    /\ handles' = Append(handles, Handle(kind, l))
    /\ metricListeners' = IF kind = "metric" THEN SetAdd(metricListeners, l)
                          ELSE metricListeners
    /\ violationListeners' = IF kind = "violation" THEN SetAdd(violationListeners, l)
                             ELSE violationListeners
    /\ last' = Quiet("subscribe")
    /\ UNCHANGED <<now, hasMemory, metrics, violations, memorySnapshots,
                   memoryInterval, leakTimeout, measuring, disposed, stale,
                   pmVars, mmVars, debVars, psVars>>

CallUnsubscribe(h) ==
    /\ handles[h].calls < MaxCalls
    /\ handles' = [handles EXCEPT ![h].calls = @ + 1]
    /\ metricListeners' = IF handles[h].kind = "metric"
                          THEN SetDelete(metricListeners, handles[h].listener)
                          ELSE metricListeners
    /\ violationListeners' = IF handles[h].kind = "violation"
                             THEN SetDelete(violationListeners, handles[h].listener)
                             ELSE violationListeners
    /\ last' = Quiet("unsubscribe")
    /\ UNCHANGED <<now, hasMemory, metrics, violations, memorySnapshots,
                   memoryInterval, leakTimeout, measuring, disposed, stale,
                   pmVars, mmVars, debVars, psVars>>

(***************************************************************************)
(* Queries.                                                                *)
(***************************************************************************)
QueryInputs ==
    { Metric("AuthForm-render", "render", 10, "AuthForm", "absent"),
      Metric("X-render", "render", 10, "none", "absent"),
      Metric("AuthForm-query", "query", 40, "AuthForm", "absent") }

QueryOptions ==
    { Options(type, timeRange, component) :
        type \in {"", "render"},
        timeRange \in {NoRange, TimeRange(Start, Start + MEMORY_SNAPSHOT_INTERVAL)},
        component \in {"", "AuthForm"} }

\* what the caller of getMetrics(options) passed and got back
Answered(options, result) ==
    Quiet("getMetrics") @@ [options |-> options, result |-> result]

GetMetrics(options) ==
    /\ last' = Answered(options, getMetrics(metrics, options))
    /\ UNCHANGED <<now, hasMemory, optVars, disposed, stale, pmVars, mmVars,
                   subVars, debVars, psVars>>

Subscriptions ==
    \/ \E l \in Listeners : OnMetric(l)
    \/ \E l \in Listeners : OnViolation(l)
    \/ \E l \in Listeners : UnsubscribeMetric(l)
    \/ \E l \in Listeners : UnsubscribeViolation(l)

(***************************************************************************)
(* Spec: the store on a host without performance.memory.                   *)
(***************************************************************************)
Next ==
    \/ \E m \in Inputs : AddMetric(m)
    \/ Subscriptions
    \/ ClearMetrics
    \/ Dispose
    \/ Advance(ONE_HOUR + MEMORY_SNAPSHOT_INTERVAL)

Spec == Init /\ [][Next]_vars

(***************************************************************************)
(* SpecMemory: the store on a host with performance.memory, its interval   *)
(* and its debounced leak check running.                                   *)
(***************************************************************************)
NextMemory ==
    \/ \E m \in TimerInputs : AddMetric(m)
    \/ \E u \in HeapValues : MemoryTick(u)
    \/ LeakCheck
    \/ Subscriptions
    \/ Dispose
    \/ Advance(MEMORY_SNAPSHOT_INTERVAL)

SpecMemory == InitMemory /\ [][NextMemory]_vars

(***************************************************************************)
(* SpecMeasure: measureExecutionTime recording into the store.             *)
(***************************************************************************)
NextMeasure ==
    \/ \E m \in MeasureInputs : MeasureStart(m)
    \/ \E o \in {"ok", "fail"} : MeasureSettle(o)
    \/ Subscriptions
    \/ Advance(MEMORY_SNAPSHOT_INTERVAL)

SpecMeasure == Init /\ [][NextMeasure]_vars

(***************************************************************************)
(* SpecPM: PerformanceMonitor.                                             *)
(***************************************************************************)
NextPM ==
    \/ \E m \in PMInputs : PMAddMetric(m)
    \/ \E u \in HeapValues : PMMemoryTick(u)
    \/ \E l \in Listeners : PMSubscribe(l)
    \/ \E l \in Listeners : PMUnsubscribe(l)
    \/ PMDispose
    \/ Advance(MEMORY_SNAPSHOT_INTERVAL)

SpecPM == InitPM /\ [][NextPM]_vars

(***************************************************************************)
(* SpecMM: MemoryMonitor recording into PerformanceMonitor.                *)
(***************************************************************************)
NextMM ==
    \/ \E used \in MMHeapValues : MMTick(used)
    \/ MMLeakCheck
    \/ \E l \in Listeners : OnMemoryLeak(l)
    \/ \E l \in Listeners : MMUnsubscribe(l)
    \/ \E l \in Listeners : PMSubscribe(l)
    \/ MMDispose
    \/ MMAdvance

SpecMM == InitMM /\ [][NextMM]_vars

(***************************************************************************)
(* SpecSubscribe: the store and callers that keep their unsubscribe        *)
(* functions.                                                              *)
(***************************************************************************)
NextSubscribe ==
    \/ \E kind \in Kinds, l \in Listeners : Subscribe(kind, l)
    \/ \E h \in 1..Len(handles) : CallUnsubscribe(h)
    \/ \E m \in TimerInputs : AddMetric(m)
    \/ ClearMetrics

SpecSubscribe == Init /\ [][NextSubscribe]_vars

(***************************************************************************)
(* SpecQuery: getMetrics over the buffers addMetric builds as time passes. *)
(***************************************************************************)
NextQuery ==
    \/ \E m \in QueryInputs : AddMetric(m)
    \/ \E options \in QueryOptions : GetMetrics(options)
    \/ Advance(MEMORY_SNAPSHOT_INTERVAL)

SpecQuery == Init /\ [][NextQuery]_vars

(***************************************************************************)
(* SpecStamp: PerformanceMonitor and callers that stamp their metrics      *)
(* themselves, with Date.now() or with an earlier reading of the clock.    *)
(***************************************************************************)
StampInputs ==
    { PMMetric(<<"test">>, "render", d, ts) :
        d \in {5, 10},
        ts \in {now, now - MEMORY_SNAPSHOT_INTERVAL} }

NextStamp ==
    \/ \E m \in StampInputs : PMAddMetric(m)
    \/ \E l \in Listeners : PMSubscribe(l)
    \/ Advance(MEMORY_SNAPSHOT_INTERVAL)

SpecStamp == Init /\ [][NextStamp]_vars

(***************************************************************************)
(* SpecBudget: callers of checkPerformanceBudget(type, value, component).  *)
(***************************************************************************)
BudgetTypes == {"render", "query", "mutation", "validation", "navigation", "event"}
BudgetValues == {0, 16, 80, 100, 200, 1000}
BudgetComponents == {"", "Auth", "Form", "UnknownComponent"}

\* what the caller of checkPerformanceBudget passed and got back
Checked(type, value, component, result) ==
    Quiet("checkPerformanceBudget")
        @@ [type |-> type, value |-> value, component |-> component,
            result |-> result]

CheckPerformanceBudget(type, value, component) ==
    /\ last' = Checked(type, value, component,
                       checkPerformanceBudget(type, value, component))
    /\ UNCHANGED <<now, hasMemory, optVars, disposed, stale, pmVars, mmVars,
                   subVars, debVars, psVars>>

NextBudget ==
    \E type \in BudgetTypes, value \in BudgetValues, component \in BudgetComponents :
        CheckPerformanceBudget(type, value, component)

SpecBudget == Init /\ [][NextBudget]_vars

(***************************************************************************)
(* SpecPercentile: callers of calculatePercentile(values, percentile).     *)
(***************************************************************************)
\* length of the lists passed to calculatePercentile
MaxLen == 3
PercentileValues == {10, 20, 30}
Percentiles == {0, 1, 25, 50, 95, 100}

ValueLists == UNION { [1..n -> PercentileValues] : n \in 0..MaxLen }

\* what the caller of calculatePercentile passed and got back
Computed(values, percentile, result) ==
    Quiet("calculatePercentile")
        @@ [values |-> values, percentile |-> percentile, result |-> result]

CalculatePercentile(values, percentile) ==
    /\ last' = Computed(values, percentile, calculatePercentile(values, percentile))
    /\ UNCHANGED <<now, hasMemory, optVars, disposed, stale, pmVars, mmVars,
                   subVars, debVars, psVars>>

NextPercentile ==
    \E values \in ValueLists, percentile \in Percentiles :
        CalculatePercentile(values, percentile)

SpecPercentile == Init /\ [][NextPercentile]_vars

(***************************************************************************)
(* SpecSuspicious: findSuspiciousComponent over the metrics of a leak      *)
(* window.                                                                 *)
(***************************************************************************)
\* metrics in the leak window
MaxWindowMetrics == 3

\* a metric as findSuspiciousComponent reads it
WindowMetric(component, memoryUsage) ==
    [component |-> component, memoryUsage |-> memoryUsage]

WindowMetrics ==
    { WindowMetric(component, memoryUsage) :
        component \in {"none", "LeakyComponent", "List"},
        memoryUsage \in {0, 5} }

MetricWindows == UNION { [1..n -> WindowMetrics] : n \in 0..MaxWindowMetrics }

\* what detectLeaks passed to findSuspiciousComponent and put in the report
Attributed(recentMetrics, component) ==
    Quiet("findSuspiciousComponent")
        @@ [recentMetrics |-> recentMetrics, component |-> component]

FindSuspiciousComponent(recentMetrics) ==
    /\ last' = Attributed(recentMetrics, findSuspiciousComponent(recentMetrics))
    /\ UNCHANGED <<now, hasMemory, optVars, disposed, stale, pmVars, mmVars,
                   subVars, debVars, psVars>>

NextSuspicious ==
    \E recentMetrics \in MetricWindows : FindSuspiciousComponent(recentMetrics)

SpecSuspicious == Init /\ [][NextSuspicious]_vars

(***************************************************************************)
(* SpecDebounce: MemoryMonitor with detectLeaks called at any moment.      *)
(***************************************************************************)
NextDebounce ==
    \/ DetectLeaks
    \/ MMLeakCheck
    \/ \E used \in MMHeapValues : MMTick(used)
    \/ \E l \in Listeners : OnMemoryLeak(l)
    \/ DebounceAdvance

SpecDebounce == InitMM /\ [][NextDebounce]_vars

(***************************************************************************)
(* SpecP95: the 95th percentiles taken over lists of durations.            *)
(***************************************************************************)
\* length of the lists of durations
MaxSamples == 20

\* n durations: constant, rising or falling from a base
Samples(n, base, step) == [i \in 1..n |-> base + step * i]

SampleLists ==
    { Samples(n, base, step) :
        n \in 0..MaxSamples, base \in {100, 200}, step \in {-1, 0, 1} }

\* what a 95th percentile was taken of, and its value
Taken(op, values, p95) == Quiet(op) @@ [values |-> values, p95 |-> p95]

AggregateResults(results) ==
    /\ last' = Taken("aggregateResults", results, aggregateResultsP95(results))
    /\ UNCHANGED <<now, hasMemory, optVars, disposed, stale, pmVars, mmVars,
                   subVars, debVars, psVars>>

\* analyzeMetric of a metric, the durations of its type in the buffer being
\* durations (the metric's own is the last)
AnalyzeMetricP95(durations) ==
    /\ durations # <<>>
    /\ last' = Taken("analyzeMetric", recentDurations(durations),
                     analyzeMetricP95(durations))
    /\ UNCHANGED <<now, hasMemory, optVars, disposed, stale, pmVars, mmVars,
                   subVars, debVars, psVars>>

NextP95 ==
    \/ \E results \in SampleLists : AggregateResults(results)
    \/ \E durations \in SampleLists : AnalyzeMetricP95(durations)

SpecP95 == Init /\ [][NextP95]_vars

(***************************************************************************)
(* SpecStore: PerformanceStore.                                            *)
(***************************************************************************)
NextStore ==
    \/ \E m \in TimerInputs : PSAddMetric(m)
    \/ \E enabled \in BOOLEAN : PSSetEnabled(enabled)
    \/ PSDispose
    \/ PSClearMetrics
    \/ \E handle \in 1..MaxTimers, usage \in HeapValues : PSIntervalCallback(handle, usage)
    \/ Advance(MEMORY_SNAPSHOT_INTERVAL)

SpecStore == InitPS /\ [][NextStore]_vars

(***************************************************************************)
(* Properties.                                                             *)
(***************************************************************************)

\* C1: after any sequence of addMetric calls the metric buffer holds at most
\* maxMetrics metrics, the newest one included.
C1_BoundedRetention ==
    /\ Len(metrics) <= MaxMetrics
    /\ last.op = "addMetric" =>
          /\ Len(metrics) >= 1
          /\ metrics[Len(metrics)] = last.pushed[1]

\* C2: at every moment no retained metric is older than the retention
\* window (one hour) relative to the clock.
C2_RetentionWindow ==
    \A i \in 1..Len(metrics) : now - metrics[i].timestamp <= ONE_HOUR

\* C3: addMetric classifies a duration d against the thresholds it resolved
\* with inclusive boundaries: d >= error gives one error violation, otherwise
\* d >= warning gives one warning violation, otherwise none.
C3_InclusiveBoundaries ==
    (last.op = "addMetric" /\ resolveThresholds(last.input).has) =>
        LET d == last.input.duration
            t == resolveThresholds(last.input)
            severities == [i \in 1..Len(last.reported) |-> last.reported[i].severity]
        IN  severities = IF d >= t.error THEN <<"error">>
                         ELSE IF d >= t.warning THEN <<"warning">>
                         ELSE <<>>

\* C4: when the metric's component has a budget and its type has a global
\* budget, a duration below the component's warning threshold produces no
\* violation (PerformanceMonitor).
C4_ComponentBudgetOnly ==
    last.op = "addMetric" =>
        LET component == Head(last.input.id)
        IN  ( /\ COMPONENT_BUDGETS(component).has
              /\ PM_GLOBAL_BUDGETS(last.input.type).has
              /\ last.input.duration < COMPONENT_BUDGETS(component).warning )
            => last.reported = <<>>

\* C5: when the measured operation fails, measureExecutionTime re-raises the
\* operation's own failure and the store gains exactly one metric, of type
\* 'error' with metadata.success false.
C5_FailureRecorded ==
    (last.op = "measure" /\ last.outcome = "fail") =>
        /\ last.threw = "operation"
        /\ Len(last.pushed) = 1
        /\ last.pushed[1].type = "error"
        /\ last.pushed[1].success = "false"

\* C6: after dispose() the metric and violation buffers are empty and stay
\* empty, whatever is called afterwards.
C6_EmptyAfterDispose ==
    disposed => (metrics = <<>> /\ violations = <<>>)

\* C7: after dispose() no listener that was subscribed before it (and has not
\* subscribed again) is invoked, by addMetric, by the memory interval or by a
\* debounced leak check that was pending.
C7_NoStaleListenerInvoked ==
    /\ last.mInvoked \cap stale.metric = {}
    /\ last.vInvoked \cap stale.violation = {}

\* a leak check that was pending at dispose() has fired and reported a
\* violation while listeners subscribed before the disposal exist
C7_Witness ==
    /\ disposed
    /\ stale.violation # {}
    /\ last.op = "leakCheck"
    /\ last.vDispatched

\* C8: when a listener throws during a dispatch, every other listener
\* subscribed for that event is still invoked.
C8_ListenerIsolation ==
    /\ last.mDispatched => last.mInvoked = Range(metricListeners)
    /\ last.vDispatched => last.vInvoked = Range(violationListeners)

\* C9: addMetric never throws, and whatever the listeners do the new metric is
\* retained and the buffer is trimmed to maxMetrics.
C9_AddMetricNeverThrows ==
    last.op = "addMetric" =>
        /\ last.threw = "none"
        /\ Len(metrics) <= MaxMetrics
        /\ Len(metrics) >= 1
        /\ metrics[Len(metrics)] = last.pushed[1]

\* C10: when the measured operation succeeds, measureExecutionTime returns its
\* result: it raises nothing.
C10_OnlyOperationFailures ==
    (last.op = "measure" /\ last.outcome = "ok") => last.threw = "none"

\* PerformanceMonitor.dispose() clears its one listener set: the same holds
\* of it.
PM_NoStaleListenerInvoked ==
    (last.mInvoked \cup last.vInvoked) \cap stale.metric = {}

\* C11: for the baseline and latest snapshots detectLeaks examines, a report
\* is emitted exactly when used bytes grew by more than 20% over the baseline,
\* and its usage-increase value is that growth in percent (30 for 1,000,000
\* -> 1,300,000; no report for 1,100,000).
C11_LeakThreshold ==
    (last.op = "mmLeakCheck" /\ Len(mmSnapshots) >= 2) =>
        LET recent == SliceLast(mmSnapshots, LeakWindow)
            baseline == recent[1].usedJSHeapSize
            latest == recent[Len(recent)].usedJSHeapSize
            grew == (latest - baseline) * 100 > 20 * baseline
        IN  /\ Len(last.reported) = (IF grew THEN 1 ELSE 0)
            /\ grew =>
                  LET value == last.reported[1].usageIncrease
                  IN  value.num = (((latest - baseline) * 100) \div baseline) * value.den

\* C12: after any number of timer ticks the snapshot buffer getSnapshots()
\* returns holds at most the maximum snapshot count, and what it holds are the
\* most recent snapshots in capture order: consecutive ticks, one interval
\* apart, ending with the snapshot of the latest tick.
C12_SnapshotsBounded ==
    /\ Len(mmSnapshots) <= MaxMMSnapshots
    /\ \A i \in 1..(Len(mmSnapshots) - 1) :
          mmSnapshots[i + 1].timestamp = mmSnapshots[i].timestamp + SNAPSHOT_INTERVAL
    /\ (hasMemory /\ mmInterval # NoTimer) =>
          /\ Len(mmSnapshots) >= 1
          /\ mmSnapshots[Len(mmSnapshots)].timestamp = mmInterval - SNAPSHOT_INTERVAL

\* a tick has evicted the oldest snapshot of a full buffer
C12_Witness ==
    /\ last.op = "mmTick"
    /\ Len(mmSnapshots) = MaxMMSnapshots
    /\ mmSnapshots[1].timestamp > Start

\* C13: one addMetric call whose duration is at or above the resolved error
\* threshold (the component's budget when it has one, else the global budget
\* of the type) adds exactly one violation, of severity 'error', whose value
\* is the duration and whose threshold is that error threshold
\* (PerformanceMonitor).
C13_OneErrorViolation ==
    last.op = "addMetric" =>
        LET component == Head(last.input.id)
            budget == IF COMPONENT_BUDGETS(component).has
                      THEN COMPONENT_BUDGETS(component)
                      ELSE PM_GLOBAL_BUDGETS(last.input.type)
        IN  (budget.has /\ last.input.duration >= budget.error) =>
                /\ Len(last.reported) = 1
                /\ last.reported[1].severity = "error"
                /\ last.reported[1].value = last.input.duration
                /\ last.reported[1].threshold = budget.error

\* C14: every addMetric call hands the stored metric to every metric listener,
\* and hands a violation to every violation listener exactly when it appended
\* one.
C14_DeliveredToAll ==
    last.op = "addMetric" =>
        /\ last.mDispatched
        /\ last.mInvoked = Range(metricListeners)
        /\ last.vDispatched <=> (last.reported # <<>>)
        /\ (last.reported # <<>>) => last.vInvoked = Range(violationListeners)

\* the listeners of a kind that have an unsubscribe function never called, and
\* those that have one that was called
Uncalled(kind) ==
    {handles[h].listener : h \in {i \in 1..Len(handles) :
                                    handles[i].kind = kind /\ handles[i].calls = 0}}
Called(kind) ==
    {handles[h].listener : h \in {i \in 1..Len(handles) :
                                    handles[i].kind = kind /\ handles[i].calls > 0}}

\* C15: once an unsubscribe function has been called, its listener is not
\* invoked for a later metric or violation (unless subscribed again), and the
\* listeners none of whose unsubscribe functions was called are notified of
\* every later event.
C15_UnsubscribedNotInvoked ==
    (last.op = "addMetric" /\ Called("metric") \cup Called("violation") # {}) =>
        /\ last.mInvoked \subseteq Uncalled("metric")
        /\ last.vInvoked \subseteq Uncalled("violation")
        /\ (Uncalled("metric") \ Called("metric")) \subseteq last.mInvoked
        /\ (last.reported # <<>>) =>
              (Uncalled("violation") \ Called("violation")) \subseteq last.vInvoked

\* C16: calling an unsubscribe function again does not throw and leaves both
\* registries as they are.
C16_IdempotentUnsubscribe ==
    [][ \A h \in 1..Len(handles) :
           (handles[h].calls >= 1 /\ handles'[h].calls = handles[h].calls + 1) =>
               /\ metricListeners' = metricListeners
               /\ violationListeners' = violationListeners
               /\ last'.threw = "none" ]_vars

\* C17: after dispose() the Memory Watcher is stopped for good: its interval
\* is cleared and never fires, the snapshot buffer stays empty and no leak
\* listener is invoked, also by a debounced leak check that was pending when
\* dispose() was called.
C17_StoppedForGood ==
    disposed =>
        /\ mmInterval = NoTimer
        /\ last.op # "mmTick"
        /\ mmSnapshots = <<>>
        /\ last.vInvoked = {}
        /\ last.reported = <<>>

\* the leak check left pending by the last tick fires after dispose(), with a
\* listener subscribed
C17_Witness ==
    /\ disposed
    /\ last.op = "mmLeakCheck"
    /\ mmListeners # <<>>

\* C18: without the host memory API the Memory Watcher never produces a
\* snapshot, a memory metric or a leak report, whatever number of ticks
\* passes, and none of its methods or callbacks throws.
C18_InertWithoutMemoryAPI ==
    ~hasMemory =>
        /\ mmSnapshots = <<>>
        /\ pmMetrics = <<>>
        /\ last.reported = <<>>
        /\ last.vInvoked = {}
        /\ last.threw = "none"

\* without the memory API, ticks have passed and the debounced check has run
C18_Witness ==
    /\ ~hasMemory
    /\ last.op = "mmLeakCheck"
    /\ mmListeners # <<>>
    /\ pmListeners # <<>>
    /\ now > Start + SNAPSHOT_INTERVAL + DEBOUNCE_WAIT

\* C19: clearMetrics() empties the metric buffer and the violation buffer and
\* leaves both listener registries as they are, and the addMetric call that
\* follows it notifies every listener subscribed before the clear.
C19_ClearKeepsListeners ==
    [][ /\ (last'.op = "clearMetrics") =>
              /\ metrics' = <<>>
              /\ violations' = <<>>
              /\ metricListeners' = metricListeners
              /\ violationListeners' = violationListeners
        /\ (last.op = "clearMetrics" /\ last'.op = "addMetric") =>
              /\ last'.mInvoked = Range(metricListeners)
              /\ (last'.reported # <<>>) =>
                    last'.vInvoked = Range(violationListeners) ]_vars

\* a metric passes every filter the options provide
Matches(m, options) ==
    /\ (options.type # "") => m.type = options.type
    /\ options.timeRange.has =>
          (options.timeRange.start <= m.timestamp /\ m.timestamp <= options.timeRange.end)
    /\ (options.component # "") => m.component = options.component

C21_ViolationRetention ==
    /\ Len(violations) <= MaxMetrics
    /\ \A i \in 1..Len(violations) : now - violations[i].timestamp <= ONE_HOUR

\* C22: every stored metric is stamped with the clock at the moment it was
\* ingested, so the retained buffer is in non-decreasing timestamp order
\* (PerformanceMonitor).
C22_StampedAtIngestion ==
    /\ \A i \in 1..(Len(pmMetrics) - 1) :
          pmMetrics[i].timestamp <= pmMetrics[i + 1].timestamp
    /\ (last.op = "addMetric" /\ pmMetrics # <<>>) =>
          pmMetrics[Len(pmMetrics)].timestamp = now

\* the same for OptimizedPerformanceMonitor
C22_OptimizedStampedAtIngestion ==
    /\ \A i \in 1..(Len(metrics) - 1) :
          metrics[i].timestamp <= metrics[i + 1].timestamp
    /\ (last.op = "addMetric" /\ metrics # <<>>) =>
          metrics[Len(metrics)].timestamp = now

\* C23: checkPerformanceBudget(type, value, component) resolves the budget in
\* this order: the component's budget when a component is given and has one;
\* otherwise the global budget of the type, also when the component given has
\* no budget; the unbounded budget, which never flags, only when neither
\* exists.
C23_BudgetLookupOrder ==
    last.op = "checkPerformanceBudget" =>
        LET expected ==
                IF last.component # "" /\ COMPONENT_BUDGETS(last.component).has
                THEN COMPONENT_BUDGETS(last.component)
                ELSE PM_GLOBAL_BUDGETS(last.type)
        IN  /\ last.result.budget = expected
            /\ ~expected.has => (~last.result.isWarning /\ ~last.result.isError)

\* C24: when the measured operation succeeds, measureExecutionTime returns
\* its result and the store gains exactly one metric, with the caller's id
\* and type and metadata.success true, whatever metadata the caller passed.
C24_SuccessRecorded ==
    (last.op = "measure" /\ last.outcome = "ok") =>
        /\ last.threw = "none"
        /\ Len(last.pushed) = 1
        /\ last.pushed[1].id = last.input.id
        /\ last.pushed[1].type = last.input.type
        /\ last.pushed[1].success = "true"

\* C25: when the snapshot taken on a timer tick exceeds the baseline of the
\* leak window by more than the leak threshold, every registered leak
\* listener has been called with a report by the end of that tick.
C25_LeakReportedSameTick ==
    (last.op = "mmTick" /\ hasMemory /\ Len(mmSnapshots) >= 2) =>
        LET recent == SliceLast(mmSnapshots, LeakWindow)
            baseline == recent[1].usedJSHeapSize
            latest == recent[Len(recent)].usedJSHeapSize
        IN  ((latest - baseline) * 100 > 20 * baseline) =>
                /\ Len(last.reported) = 1
                /\ Range(mmListeners) \subseteq last.vInvoked

\* C26: calculatePercentile(values, p) for p in 0..100 returns 0 for an empty
\* list and otherwise the element of rank ceil(p/100 * length) - 1 (0-based,
\* clamped to the list) in ascending order: always a member of values, for
\* p = 0 too.
C26_PercentileIsMember ==
    last.op = "calculatePercentile" =>
        LET values == last.values
            n == Len(values)
            raw == CeilDiv(last.percentile * n, 100) - 1
            rank == IF raw < 0 THEN 0 ELSE IF raw > n - 1 THEN n - 1 ELSE raw
            v == last.result.value
        IN  /\ last.result.defined
            /\ n = 0 => v = 0
            /\ n > 0 =>
                  /\ v \in Range(values)
                  /\ Cardinality({i \in 1..n : values[i] < v}) <= rank
                  /\ Cardinality({i \in 1..n : values[i] <= v}) >= rank + 1

\* C27: the component of a leak report is one with the highest score
\* totalMemory * count / (metrics in the window) among the components the
\* metrics of the window name, and is undefined only when none is named.
C27_HighestScoringComponent ==
    last.op = "findSuspiciousComponent" =>
        LET ms == last.recentMetrics
            named == {ms[i].component : i \in 1..Len(ms)} \ {"none"}
            Count(c) == Cardinality({i \in 1..Len(ms) : ms[i].component = c})
            Total(c) == componentStats(ms, c).totalMemory
            Score(c) == Total(c) * Count(c)
        IN  /\ (last.component = "none") <=> (named = {})
            /\ (last.component # "none") =>
                  /\ last.component \in named
                  /\ \A c \in named : Score(last.component) >= Score(c)

C29_P95Agree ==
    last.op \in {"aggregateResults", "analyzeMetric"} =>
        last.p95 = calculatePercentile(last.values, 95)

\* C30: under any sequence of setEnabled(true), setEnabled(false) and
\* dispose() calls PerformanceStore has at most one active memory-sampling
\* timer, and has one exactly when recording is enabled; addMetric while
\* recording is disabled leaves the metric buffer unchanged.
C30_OneTimerWhenEnabled ==
    /\ Cardinality(psTimers) <= 1
    /\ (psTimers # {}) <=> psIsEnabled
    /\ (last.op = "psAddMetric" /\ ~last.wasEnabled) => psMetrics = last.before

====
